---- MODULE Spec2Model ----
(***************************************************************************)
(* Model of the branch-list controller of git-branch-man                   *)
(* (src/src/components/branch_list.rs).                                    *)
(*                                                                         *)
(* State: the fields of BranchList (mode, error, branches, selected_index),*)
(* the draft of the name input, the build profile (whether usize           *)
(* arithmetic is overflow-checked: it panics in a debug build and wraps in *)
(* a release build), a flag telling that the thread has panicked, and a    *)
(* history record of the last key event: the action it was mapped to, the  *)
(* backend results, the delete requests issued and the list before it.     *)
(*                                                                         *)
(* One step is one key event: handle_key_events maps the key to an Action  *)
(* and update applies it.  In Spec every asynchronous method is run to      *)
(* completion under maybe_handle_git_error, each backend call returning Ok *)
(* or Err; UpdateSpec is update as it is written, where the futures are    *)
(* built and dropped; StagingSpec calls the staging method directly.       *)
(* Branch names are the integers 1..NumNames, ordered as String::cmp       *)
(* orders the names they stand for; 0 is the absent draft.                 *)
(***************************************************************************)
EXTENDS Integers, Sequences, FiniteSets, TLC

\* ---------------------------------------------------------------- bounds
NumNames == 3        \* number of distinct branch names
UsizeBits == 4       \* width of usize in the model (64 in the program)

Names == 1..NumNames
UsizeModulus == 2 ^ UsizeBits

VARIABLES mode, error, branches, selected_index, draft, overflow_checks,
          panicked, last

vars == <<mode, error, branches, selected_index, draft, overflow_checks,
          panicked, last>>

\* ------------------------------------------------------------ data model
\* BranchItem::new(GitBranch {name, is_head, ..}, true)
BranchItem(name, is_head) ==
  [name |-> name, is_head |-> is_head, staged_for_deletion |-> FALSE]

\* BranchItem::stage_for_deletion
stage_for_deletion(item, stage) ==
  [item EXCEPT !.staged_for_deletion = stage]

\* error: Option<String>; NoError is None
NoError == "None"

\* the Result<(), Error> of a backend call: Ok, or Error::Git with the
\* message of the git command that failed
Ok == "Ok"
GitError(cmd) == cmd

\* clear_error: the slot afterwards
clear_error_skipped == error

clear_error == NoError

\* maybe_handle_git_error: the slot after the future returned res
maybe_handle_git_error_dropped(slot, res) == slot

maybe_handle_git_error(slot, res) == IF res = Ok THEN slot ELSE res

\* usize subtraction of a release build (wrapping)
wrapping_sub(a, b) == (a - b + UsizeModulus) % UsizeModulus

\* Vec::get(i).is_some(), i a 0-based usize
InRange(i, seq) == i < Len(seq)

\* Vec::remove(i), i 0-based
VecRemove(seq, i) ==
  [k \in 1..(Len(seq) - 1) |-> IF k <= i THEN seq[k] ELSE seq[k + 1]]

\* Vec::reverse
VecReverse_skipped(seq) == seq

VecReverse(seq) == [k \in 1..Len(seq) |-> seq[Len(seq) + 1 - k]]

\* iter().position(|b| b.branch.name == name), 0-based; -1 stands for None
RECURSIVE position_from(_, _, _)
position_from(seq, name, k) ==
  IF k > Len(seq) THEN -1
  ELSE IF seq[k].name = name THEN k - 1
  ELSE position_from(seq, name, k + 1)

position(seq, name) == position_from(seq, name, 1)

\* sort_by(|a, b| a.branch.name.cmp(&b.branch.name)): a stable sort
RECURSIVE insert_sorted(_, _)
insert_sorted(sorted, item) ==
  IF sorted = <<>> THEN <<item>>
  ELSE IF sorted[Len(sorted)].name <= item.name THEN Append(sorted, item)
  ELSE Append(insert_sorted(SubSeq(sorted, 1, Len(sorted) - 1), item),
              sorted[Len(sorted)])

RECURSIVE sort_by_name(_)
sort_by_name(seq) ==
  IF seq = <<>> THEN <<>>
  ELSE insert_sorted(sort_by_name(SubSeq(seq, 1, Len(seq) - 1)),
                     seq[Len(seq)])

\* ------------------------------------------------------------- history
Event(key, action) ==
  [key |-> key, action |-> action, name |-> 0, ok1 |-> TRUE, ok2 |-> TRUE,
   failed |-> {}, requests |-> <<>>, awaited |-> TRUE,
   pc |-> "done", removed |-> <<>>,
   pre_branches |-> branches, pre_selected |-> selected_index,
   pre_mode |-> mode, pre_error |-> error]

\* ---------------------------------------------------------------- Init
\* BranchList::default followed by load: the branches git lists (distinct
\* names), at most one of them the head, nothing staged, cursor at 0.
RECURSIVE SeqsOver(_, _)
SeqsOver(S, n) ==
  IF n = 0 THEN {<<>>}
  ELSE LET shorter == SeqsOver(S, n - 1)
       IN  shorter \cup
           {Append(s, x) : s \in {t \in shorter : Len(t) = n - 1}, x \in S}

Distinct(seq) == \A i, j \in 1..Len(seq) : i # j => seq[i] # seq[j]

load ==
  {[k \in 1..Len(ns) |-> BranchItem(ns[k], k = h)] :
     ns \in {s \in SeqsOver(Names, NumNames) : Distinct(s)},
     h \in 0..NumNames}

Init_in_input_mode ==
  /\ mode = "Input"
  /\ error = NoError
  /\ branches \in load
  /\ selected_index = 0
  /\ draft = 0
  /\ overflow_checks \in BOOLEAN
  /\ panicked = FALSE
  /\ last = [key |-> "none", action |-> "load", name |-> 0, ok1 |-> TRUE,
             ok2 |-> TRUE, failed |-> {}, requests |-> <<>>,
             awaited |-> TRUE, pc |-> "done", removed |-> <<>>,
             pre_branches |-> <<>>, pre_selected |-> 0,
             pre_mode |-> "Selection", pre_error |-> NoError]

Init ==
  /\ mode = "Selection"
  /\ error = NoError
  /\ branches \in load
  /\ selected_index = 0
  /\ draft = 0
  /\ overflow_checks \in BOOLEAN
  /\ panicked = FALSE
  /\ last = [key |-> "none", action |-> "load", name |-> 0, ok1 |-> TRUE,
             ok2 |-> TRUE, failed |-> {}, requests |-> <<>>,
             awaited |-> TRUE, pc |-> "done", removed |-> <<>>,
             pre_branches |-> <<>>, pre_selected |-> 0,
             pre_mode |-> "Selection", pre_error |-> NoError]

\* -------------------------------------------------------- select_previous
\* The new index, or a panic on `len() - 1` of an empty list.
select_previous_result(seq, idx, checks) ==
  LET n == Len(seq) IN
  IF idx = 0 \/ idx >= n
    THEN IF n = 0 /\ checks
           THEN [panic |-> TRUE, idx |-> idx]
           ELSE [panic |-> FALSE, idx |-> wrapping_sub(n, 1)]
    ELSE [panic |-> FALSE, idx |-> idx - 1]

select_previous ==
  LET r == select_previous_result(branches, selected_index, overflow_checks)
  IN  /\ selected_index' = r.idx
      /\ panicked' = r.panic
      /\ error' = clear_error
      /\ last' = Event("Up", "SelectPreviousBranch")
      /\ UNCHANGED <<mode, branches, draft, overflow_checks>>

\* ------------------------------------------------------------ select_next
select_next_nowrap(seq, idx, checks) ==
  LET n == Len(seq) IN
  IF n = 0 /\ checks THEN [panic |-> TRUE, idx |-> idx]
  ELSE IF idx >= n THEN [panic |-> FALSE, idx |-> 0]
  ELSE [panic |-> FALSE, idx |-> idx + 1]

select_next_result(seq, idx, checks) ==
  LET n == Len(seq) IN
  IF n = 0 /\ checks THEN [panic |-> TRUE, idx |-> idx]
  ELSE IF idx = wrapping_sub(n, 1) THEN [panic |-> FALSE, idx |-> 0]
  ELSE IF idx >= n THEN [panic |-> FALSE, idx |-> 0]
  ELSE [panic |-> FALSE, idx |-> idx + 1]

select_next ==
  LET r == select_next_result(branches, selected_index, overflow_checks)
  IN  /\ selected_index' = r.idx
      /\ panicked' = r.panic
      /\ error' = clear_error
      /\ last' = Event("Down", "SelectNextBranch")
      /\ UNCHANGED <<mode, branches, draft, overflow_checks>>

\* ------------------------------------------------------ checkout_selected
\* the loop that sets is_head on the item(s) named name and clears it on
\* the others
set_head_keeps_heads(seq, name) ==
  [k \in 1..Len(seq) |->
     [seq[k] EXCEPT !.is_head = (seq[k].is_head \/ seq[k].name = name)]]

set_head(seq, name) ==
  [k \in 1..Len(seq) |-> [seq[k] EXCEPT !.is_head = (seq[k].name = name)]]

checkout_selected_unchecked ==
  /\ IF ~InRange(selected_index, branches)
       THEN /\ last' = Event("c", "CheckoutSelectedBranch")
            /\ error' = maybe_handle_git_error(clear_error, Ok)
            /\ UNCHANGED branches
       ELSE \E ok \in BOOLEAN :
              LET name == branches[selected_index + 1].name IN
              /\ last' = [Event("c", "CheckoutSelectedBranch")
                            EXCEPT !.name = name, !.ok1 = ok]
              /\ branches' = set_head(branches, name)
              /\ error' = maybe_handle_git_error(clear_error,
                            IF ok THEN Ok ELSE GitError("checkout"))
  /\ UNCHANGED <<mode, selected_index, draft, overflow_checks, panicked>>

checkout_selected ==
  /\ IF ~InRange(selected_index, branches)
       THEN /\ last' = Event("c", "CheckoutSelectedBranch")
            /\ error' = maybe_handle_git_error(clear_error, Ok)
            /\ UNCHANGED branches
       ELSE \E ok \in BOOLEAN :
              LET name == branches[selected_index + 1].name IN
              /\ last' = [Event("c", "CheckoutSelectedBranch")
                            EXCEPT !.name = name, !.ok1 = ok]
              /\ IF ok
                   THEN /\ branches' = set_head(branches, name)
                        /\ error' = maybe_handle_git_error(clear_error, Ok)
                   ELSE /\ error' = maybe_handle_git_error(clear_error,
                                                           GitError("checkout"))
                        /\ UNCHANGED branches
  /\ UNCHANGED <<mode, selected_index, draft, overflow_checks, panicked>>

\* ------------------------------------------- stage_selected_for_deletion
stage_selected_always(seq, idx, stage) ==
  IF ~InRange(idx, seq) THEN seq
  ELSE IF seq[idx + 1].is_head THEN seq
  ELSE [seq EXCEPT ![idx + 1] = stage_for_deletion(seq[idx + 1], TRUE)]

stage_selected(seq, idx, stage) ==
  IF ~InRange(idx, seq) THEN seq
  ELSE IF seq[idx + 1].is_head THEN seq
  ELSE [seq EXCEPT ![idx + 1] = stage_for_deletion(seq[idx + 1], stage)]

stage_selected_for_deletion(key, action, stage) ==
  /\ branches' = stage_selected(branches, selected_index, stage)
  /\ error' = clear_error
  /\ last' = Event(key, action)
  /\ UNCHANGED <<mode, selected_index, draft, overflow_checks, panicked>>

\* ------------------------------------------------------- deleted_selected
\* the index after a successful removal, or a panic on `selected_index -= 1`
deleted_selected_index(seq, idx, checks) ==
  IF idx >= Len(seq)
    THEN IF idx = 0 /\ checks
           THEN [panic |-> TRUE, idx |-> idx]
           ELSE [panic |-> FALSE, idx |-> wrapping_sub(idx, 1)]
    ELSE [panic |-> FALSE, idx |-> idx]

deleted_selected ==
  /\ IF ~InRange(selected_index, branches)
       THEN /\ last' = Event("d", "DeleteBranch")
            /\ UNCHANGED <<branches, selected_index, panicked>>
       ELSE \E ok \in BOOLEAN :
              /\ last' = [Event("d", "DeleteBranch")
                            EXCEPT !.name = branches[selected_index + 1].name,
                                   !.ok1 = ok,
                                   !.requests = <<selected_index>>]
              /\ IF ok
                   THEN LET removed == VecRemove(branches, selected_index)
                            r == deleted_selected_index(removed,
                                   selected_index, overflow_checks)
                        IN  /\ branches' = removed
                            /\ selected_index' = r.idx
                            /\ panicked' = r.panic
                   ELSE UNCHANGED <<branches, selected_index, panicked>>
  /\ error' = maybe_handle_git_error(clear_error, Ok)
  /\ UNCHANGED <<mode, draft, overflow_checks>>

\* ------------------------------------------------- delete_staged_branches
\* the staged indexes (0-based), ascending: one delete request each
RECURSIVE staged_indexes_from(_, _)
staged_indexes_from(seq, k) ==
  IF k > Len(seq) THEN <<>>
  ELSE IF seq[k].staged_for_deletion
    THEN <<k - 1>> \o staged_indexes_from(seq, k + 1)
  ELSE staged_indexes_from(seq, k + 1)

staged_indexes(seq) == staged_indexes_from(seq, 1)

\* indexes_to_delete after the loop: the requests that returned Ok
indexes_to_delete(seq, failed) ==
  SelectSeq(staged_indexes(seq), LAMBDA i : i \notin failed)

\* for index in indexes { branches.remove(index) }
RECURSIVE remove_each(_, _)
remove_each(seq, indexes) ==
  IF indexes = <<>> THEN seq
  ELSE remove_each(VecRemove(seq, Head(indexes)), Tail(indexes))

remove_deleted_unreversed(seq, failed) ==
  remove_each(seq, indexes_to_delete(seq, failed))

remove_deleted(seq, failed) ==
  remove_each(seq, VecReverse(indexes_to_delete(seq, failed)))

\* the index after the removals, or a panic on `len() - 1` of an empty list
delete_staged_index(seq, idx, checks) ==
  IF idx >= Len(seq)
    THEN IF Len(seq) = 0 /\ checks
           THEN [panic |-> TRUE, idx |-> idx]
           ELSE [panic |-> FALSE, idx |-> wrapping_sub(Len(seq), 1)]
  ELSE IF idx # 0 THEN [panic |-> FALSE, idx |-> idx - 1]
  ELSE [panic |-> FALSE, idx |-> idx]

delete_staged_branches ==
  /\ \E failed \in SUBSET {staged_indexes(branches)[k] :
                             k \in 1..Len(staged_indexes(branches))} :
       LET remaining == remove_deleted(branches, failed)
           r == delete_staged_index(remaining, selected_index,
                                    overflow_checks)
       IN  /\ last' = [Event("Ctrl+d", "DeleteStagedBranches")
                         EXCEPT !.failed = failed,
                                !.requests = staged_indexes(branches)]
           /\ branches' = remaining
           /\ selected_index' = r.idx
           /\ panicked' = r.panic
  /\ error' = maybe_handle_git_error(clear_error, Ok)
  /\ UNCHANGED <<mode, draft, overflow_checks>>

\* ---------------------------------------------------------- create_branch
\* push the new item and sort
with_new_branch_unsorted(seq, name) == Append(seq, BranchItem(name, FALSE))

with_new_branch_as_head(seq, name) ==
  sort_by_name(Append(seq, BranchItem(name, TRUE)))

with_new_branch(seq, name) == sort_by_name(Append(seq, BranchItem(name, FALSE)))

\* position(..).unwrap_or(0)
position_or_0(seq, name) ==
  IF position(seq, name) = -1 THEN 0 ELSE position(seq, name)

create_branch(name) ==
  /\ \E ok1 \in BOOLEAN : \E ok2 \in (IF ok1 THEN BOOLEAN ELSE {FALSE}) :
       /\ last' = [Event("Enter", "CreateBranch")
                     EXCEPT !.name = name, !.ok1 = ok1, !.ok2 = ok2]
       /\ IF ~ok1
            THEN /\ error' = maybe_handle_git_error(clear_error,
                                                    GitError("checkout -b"))
                 /\ UNCHANGED <<branches, selected_index>>
          ELSE IF ~ok2
            THEN /\ branches' = with_new_branch(branches, name)
                 /\ error' = maybe_handle_git_error(clear_error,
                                                    GitError("checkout"))
                 /\ UNCHANGED selected_index
          ELSE /\ branches' = set_head(with_new_branch(branches, name), name)
               /\ selected_index' =
                    position_or_0(with_new_branch(branches, name), name)
               /\ error' = maybe_handle_git_error(clear_error, Ok)
  /\ UNCHANGED <<overflow_checks, panicked>>

\* ------------------------------------------------------------ name input
\* a draft that git's branch-name grammar rejects
BadName == -1

\* git_validate_branch_name: `git check-ref-format --branch name` succeeds
git_validate_any(name) == TRUE

git_validate_branch_name(name) == name \in Names

\* BranchInput: the draft is valid when it is non-empty, names no existing
\* item and passes git_validate_branch_name
is_valid(value, seq) ==
  /\ value # 0
  /\ \A k \in 1..Len(seq) : seq[k].name # value
  /\ git_validate_branch_name(value)

\* ----------------------------------------------------- key events: update
\* Each action below is handle_key_events (which clears the error and maps
\* the key to an Action in the current mode) followed by update of that
\* Action.

KeyUp == ~panicked /\ mode = "Selection" /\ select_previous

KeyDown_in_any_mode == ~panicked /\ select_next

KeyDown == ~panicked /\ mode = "Selection" /\ select_next

\* Shift+c: Action::InitNewBranch
KeyShiftC ==
  /\ ~panicked /\ mode = "Selection"
  /\ mode' = "Input"
  /\ draft' = 0
  /\ error' = clear_error
  /\ last' = Event("Shift+c", "InitNewBranch")
  /\ UNCHANGED <<branches, selected_index, overflow_checks, panicked>>

KeyC == ~panicked /\ mode = "Selection" /\ checkout_selected

KeyShiftD ==
  /\ ~panicked /\ mode = "Selection"
  /\ stage_selected_for_deletion("Shift+d", "UnstageBranchForDeletion", FALSE)

KeyCtrlD == ~panicked /\ mode = "Selection" /\ delete_staged_branches

\* plain d: nothing without a selected item, DeleteBranch on a staged item,
\* StageBranchForDeletion otherwise
KeyD_toggle ==
  /\ ~panicked /\ mode = "Selection"
  /\ IF ~InRange(selected_index, branches)
       THEN /\ error' = clear_error
            /\ last' = Event("d", "None")
            /\ UNCHANGED <<mode, branches, selected_index, draft,
                           overflow_checks, panicked>>
     ELSE IF branches[selected_index + 1].staged_for_deletion
       THEN stage_selected_for_deletion("d", "UnstageBranchForDeletion", FALSE)
     ELSE stage_selected_for_deletion("d", "StageBranchForDeletion", TRUE)

KeyD ==
  /\ ~panicked /\ mode = "Selection"
  /\ IF ~InRange(selected_index, branches)
       THEN /\ error' = clear_error
            /\ last' = Event("d", "None")
            /\ UNCHANGED <<mode, branches, selected_index, draft,
                           overflow_checks, panicked>>
     ELSE IF branches[selected_index + 1].staged_for_deletion
       THEN deleted_selected
     ELSE stage_selected_for_deletion("d", "StageBranchForDeletion", TRUE)

\* a key that edits the draft of the new name
KeyChar ==
  /\ ~panicked /\ mode = "Input"
  /\ \E value \in Names \cup {0, BadName} :
       /\ value # draft
       /\ draft' = value
  /\ error' = clear_error
  /\ last' = Event("char", "UpdateNewBranchName")
  /\ UNCHANGED <<mode, branches, selected_index, overflow_checks, panicked>>

\* Enter: Action::CreateBranch(draft) when the draft is valid, then
\* Action::EndInputMod
KeyEnter ==
  /\ ~panicked /\ mode = "Input"
  /\ IF is_valid(draft, branches)
       THEN /\ create_branch(draft)
            /\ mode' = "Selection"
            /\ draft' = 0
       ELSE /\ error' = clear_error
            /\ last' = Event("Enter", "UpdateNewBranchName")
            /\ UNCHANGED <<mode, branches, selected_index, draft,
                           overflow_checks, panicked>>

\* Esc: Action::EndInputMod
KeyEsc ==
  /\ ~panicked /\ mode = "Input"
  /\ mode' = "Selection"
  /\ draft' = 0
  /\ error' = clear_error
  /\ last' = Event("Esc", "EndInputMod")
  /\ UNCHANGED <<branches, selected_index, overflow_checks, panicked>>

Next ==
  \/ KeyUp
  \/ KeyDown
  \/ KeyShiftC
  \/ KeyC
  \/ KeyShiftD
  \/ KeyCtrlD
  \/ KeyD
  \/ KeyChar
  \/ KeyEnter
  \/ KeyEsc

Spec == Init /\ [][Next]_vars

\* ------------------------------------------- the staging method, called
\* directly (stage_selected_for_deletion is pub): any flag on any item the
\* controller can hold, and the two calls one after the other
CallSelectNext == ~panicked /\ select_next

CallSelectPrevious == ~panicked /\ select_previous

CallStage ==
  /\ ~panicked
  /\ \E stage \in BOOLEAN :
       stage_selected_for_deletion("none",
         IF stage THEN "StageBranchForDeletion"
                  ELSE "UnstageBranchForDeletion", stage)

CallStageThenUnstage ==
  /\ ~panicked
  /\ branches' = stage_selected(
                    stage_selected(branches, selected_index, TRUE),
                    selected_index, FALSE)
  /\ last' = Event("none", "StageThenUnstage")
  /\ UNCHANGED <<mode, error, selected_index, draft, overflow_checks,
                 panicked>>

StagingNext ==
  \/ CallSelectNext
  \/ CallSelectPrevious
  \/ CallStage
  \/ CallStageThenUnstage

StagingSpec == Init /\ [][StagingNext]_vars

\* ------------------------------------------------ update, as it is written
\* The arms of update that need the backend build the future of the method
\* and of maybe_handle_git_error and drop it (`let _ = ...`) without an
\* await: the future is never polled, no backend call is made and nothing
\* of the method's body runs.
future_dropped(key, action, name) ==
  /\ error' = clear_error
  /\ last' = [Event(key, action) EXCEPT !.name = name, !.awaited = FALSE]
  /\ UNCHANGED <<branches, selected_index, overflow_checks, panicked>>

UpdateKeyC ==
  /\ ~panicked /\ mode = "Selection"
  /\ future_dropped("c", "CheckoutSelectedBranch", 0)
  /\ UNCHANGED <<mode, draft>>

UpdateKeyCtrlD ==
  /\ ~panicked /\ mode = "Selection"
  /\ future_dropped("Ctrl+d", "DeleteStagedBranches", 0)
  /\ UNCHANGED <<mode, draft>>

UpdateKeyD ==
  /\ ~panicked /\ mode = "Selection"
  /\ IF ~InRange(selected_index, branches)
       THEN /\ error' = clear_error
            /\ last' = Event("d", "None")
            /\ UNCHANGED <<mode, branches, selected_index, draft,
                           overflow_checks, panicked>>
     ELSE IF branches[selected_index + 1].staged_for_deletion
       THEN /\ future_dropped("d", "DeleteBranch", 0)
            /\ UNCHANGED <<mode, draft>>
     ELSE stage_selected_for_deletion("d", "StageBranchForDeletion", TRUE)

UpdateKeyEnter ==
  /\ ~panicked /\ mode = "Input"
  /\ IF is_valid(draft, branches)
       THEN /\ future_dropped("Enter", "CreateBranch", draft)
            /\ mode' = "Selection"
            /\ draft' = 0
       ELSE /\ error' = clear_error
            /\ last' = Event("Enter", "UpdateNewBranchName")
            /\ UNCHANGED <<mode, branches, selected_index, draft,
                           overflow_checks, panicked>>

UpdateNext ==
  \/ KeyUp
  \/ KeyDown
  \/ KeyShiftC
  \/ KeyShiftD
  \/ KeyChar
  \/ KeyEsc
  \/ UpdateKeyC
  \/ UpdateKeyCtrlD
  \/ UpdateKeyD
  \/ UpdateKeyEnter

UpdateSpec == Init /\ [][UpdateNext]_vars

\* ------------------------------- delete_staged_branches, statement by
\* statement: last.pc tells where the method is ("requesting": in the loop
\* over the indexes, "removing": in the loop over indexes_to_delete, "done":
\* returned), last.requests the indexes whose delete was requested,
\* last.failed those that returned Err and last.removed the indexes given
\* to Vec::remove so far.  No key is handled before the method has returned.
Returned == last.pc = "done"

StepKeyUp == Returned /\ KeyUp

StepKeyDown == Returned /\ KeyDown

StepKeyD == Returned /\ KeyD

StepKeyShiftD == Returned /\ KeyShiftD

\* the first staged index at or after from (0-based), -1 when there is none
RECURSIVE next_staged(_, _)
next_staged(seq, from) ==
  IF from >= Len(seq) THEN -1
  ELSE IF seq[from + 1].staged_for_deletion THEN from
  ELSE next_staged(seq, from + 1)

\* where the loop over 0..len goes on after the requests made so far
loop_cursor(requests) ==
  IF requests = <<>> THEN 0 ELSE requests[Len(requests)] + 1

\* indexes_to_delete after reverse()
reversed_to_delete(requests, failed) ==
  VecReverse(SelectSeq(requests, LAMBDA i : i \notin failed))

\* Ctrl+d: handle_key_events, update, entry of delete_staged_branches
DeleteStagedBegin ==
  /\ Returned /\ ~panicked /\ mode = "Selection"
  /\ error' = clear_error
  /\ last' = [Event("Ctrl+d", "DeleteStagedBranches")
                EXCEPT !.pc = "requesting"]
  /\ UNCHANGED <<mode, branches, selected_index, draft, overflow_checks,
                 panicked>>

\* one iteration on a staged item: git_delete_branch(..).await
DeleteStagedRequest ==
  /\ last.pc = "requesting"
  /\ LET i == next_staged(branches, loop_cursor(last.requests)) IN
       /\ i # -1
       /\ \E ok \in BOOLEAN :
            last' = [last EXCEPT !.requests = Append(@, i),
                                 !.failed = IF ok THEN @ ELSE @ \cup {i}]
  /\ UNCHANGED <<mode, error, branches, selected_index, draft,
                 overflow_checks, panicked>>

\* the loop over the indexes ends; indexes_to_delete.reverse()
DeleteStagedReverse ==
  /\ last.pc = "requesting"
  /\ next_staged(branches, loop_cursor(last.requests)) = -1
  /\ last' = [last EXCEPT !.pc = "removing"]
  /\ UNCHANGED <<mode, error, branches, selected_index, draft,
                 overflow_checks, panicked>>

\* one iteration of `for index in indexes_to_delete`
DeleteStagedRemove ==
  /\ last.pc = "removing"
  /\ LET todo == reversed_to_delete(last.requests, last.failed)
         k == Len(last.removed) + 1
     IN  /\ k <= Len(todo)
         /\ branches' = VecRemove(branches, todo[k])
         /\ last' = [last EXCEPT !.removed = Append(@, todo[k])]
  /\ UNCHANGED <<mode, error, selected_index, draft, overflow_checks,
                 panicked>>

\* the adjustment of selected_index and the return to update
DeleteStagedReturn ==
  /\ last.pc = "removing"
  /\ Len(last.removed) =
       Len(reversed_to_delete(last.requests, last.failed))
  /\ LET r == delete_staged_index(branches, selected_index, overflow_checks)
     IN  /\ selected_index' = r.idx
         /\ panicked' = r.panic
  /\ error' = maybe_handle_git_error(error, Ok)
  /\ last' = [last EXCEPT !.pc = "done"]
  /\ UNCHANGED <<mode, branches, draft, overflow_checks>>

DeleteStagedNext ==
  \/ StepKeyUp
  \/ StepKeyDown
  \/ StepKeyD
  \/ StepKeyShiftD
  \/ DeleteStagedBegin
  \/ DeleteStagedRequest
  \/ DeleteStagedReverse
  \/ DeleteStagedRemove
  \/ DeleteStagedReturn

DeleteStagedSpec == Init /\ [][DeleteStagedNext]_vars

\* ================================================================ claims
Min(a, b) == IF a <= b THEN a ELSE b

\* the items of seq whose 0-based index is not in gone, in their order
Without(seq, gone) ==
  LET kept == SelectSeq([k \in 1..Len(seq) |-> k - 1], LAMBDA i : i \notin gone)
  IN  [k \in 1..Len(kept) |-> seq[kept[k] + 1]]

SeqRange(seq) == {seq[k] : k \in 1..Len(seq)}

IsNavigation == last.action \in {"SelectNextBranch", "SelectPreviousBranch"}

\* C1: on a non-empty list of length N with the index in [0, N), select_next
\* and select_previous leave the index in [0, N); select_next at N-1 yields
\* 0 and select_previous at 0 yields N-1.
C1_NavigationWraps ==
  (IsNavigation /\ Len(branches) > 0 /\ last.pre_selected < Len(branches)) =>
    /\ ~panicked
    /\ selected_index \in 0..(Len(branches) - 1)
    /\ (last.action = "SelectNextBranch"
          /\ last.pre_selected = Len(branches) - 1) => selected_index = 0
    /\ (last.action = "SelectPreviousBranch" /\ last.pre_selected = 0) =>
         selected_index = Len(branches) - 1

C1_Witness ==
  /\ last.action = "SelectNextBranch"
  /\ Len(branches) >= 2
  /\ last.pre_selected = Len(branches) - 1
  /\ selected_index = 0

\* C2: whenever the list is non-empty, selected_index lies in [0, len).
C2_SelectedInRange ==
  Len(branches) > 0 => selected_index \in 0..(Len(branches) - 1)

\* C3: no item is both the head and staged for deletion.
C3_NoStagedHead ==
  \A k \in 1..Len(branches) :
    ~(branches[k].is_head /\ branches[k].staged_for_deletion)

\* C4: delete_selected and delete_staged issue no backend delete request for
\* a head item, and the head item is never removed from the list.
C4_HeadNeverDeleted ==
  last.action \in {"DeleteBranch", "DeleteStagedBranches"} =>
    /\ \A i \in SeqRange(last.requests) : ~last.pre_branches[i + 1].is_head
    /\ \A k \in 1..Len(last.pre_branches) :
         last.pre_branches[k].is_head =>
           \E j \in 1..Len(branches) :
             branches[j].name = last.pre_branches[k].name

\* C5: staging or unstaging while the selected item is the head changes
\* nothing: the item's flag stays false, the list and the index are as
\* before.
C5_StageHeadNoChange ==
  ( /\ last.action \in {"StageBranchForDeletion", "UnstageBranchForDeletion"}
    /\ InRange(last.pre_selected, last.pre_branches)
    /\ last.pre_branches[last.pre_selected + 1].is_head ) =>
    /\ branches = last.pre_branches
    /\ selected_index = last.pre_selected
    /\ ~branches[selected_index + 1].staged_for_deletion

\* C6: delete_staged removes exactly the staged items whose deletion
\* succeeded, keeps the failed ones staged, requests the deletion of every
\* staged item whatever failed before it, and keeps the order of the rest.
C6_DeleteStagedPartial ==
  last.action = "DeleteStagedBranches" =>
    LET pre == last.pre_branches
        staged == {i \in 0..(Len(pre) - 1) : pre[i + 1].staged_for_deletion}
    IN  /\ last.failed \subseteq staged
        /\ branches = Without(pre, staged \ last.failed)
        /\ \A i \in last.failed :
             \E k \in 1..Len(branches) :
               /\ branches[k] = pre[i + 1]
               /\ branches[k].staged_for_deletion
        /\ SeqRange(last.requests) = staged
        /\ Len(last.requests) = Cardinality(staged)

C6_Witness ==
  /\ last.action = "DeleteStagedBranches"
  /\ Len(last.pre_branches) = 3
  /\ last.requests = <<0, 2>>
  /\ last.failed = {0}
  /\ Len(branches) = 2
  /\ branches[1].staged_for_deletion
  /\ ~branches[2].staged_for_deletion

\* C7: after delete_staged on a list that is still non-empty,
\* selected_index = min(selected_index before, new len - 1).
C7_DeleteStagedClamps ==
  (last.action = "DeleteStagedBranches" /\ Len(branches) > 0) =>
    /\ ~panicked
    /\ selected_index = Min(last.pre_selected, Len(branches) - 1)

\* C8: a successful delete_selected at index i removes that item, keeps the
\* other items, their order and flags, completes, and leaves
\* selected_index = min(i, new len - 1) on the items that remain.
C8_DeleteSelected ==
  (last.action = "DeleteBranch" /\ last.requests # <<>> /\ last.ok1) =>
    /\ ~panicked
    /\ branches = Without(last.pre_branches, {last.pre_selected})
    /\ Len(branches) > 0 =>
         selected_index = Min(last.pre_selected, Len(branches) - 1)

CreateSucceeded ==
  last.action = "CreateBranch" /\ last.ok1 /\ last.ok2

\* C9: after a create_branch(name) whose create and checkout both succeed,
\* exactly one item is named name, it is the head and no other item is, the
\* list is sorted by name and selected_index points at the new item.
C9_CreateSucceeds ==
  CreateSucceeded =>
    /\ Cardinality({k \in 1..Len(branches) : branches[k].name = last.name}) = 1
    /\ \A k \in 1..Len(branches) :
         branches[k].is_head <=> (branches[k].name = last.name)
    /\ \A j, k \in 1..Len(branches) :
         j < k => branches[j].name <= branches[k].name
    /\ InRange(selected_index, branches)
    /\ branches[selected_index + 1].name = last.name

C9_Witness ==
  /\ CreateSucceeded
  /\ Len(branches) = 3
  /\ branches[2].name = last.name
  /\ \E k \in 1..Len(last.pre_branches) : last.pre_branches[k].is_head
  /\ last.pre_branches[1].name > last.pre_branches[2].name

\* C10: when the create succeeds and the checkout that follows fails, the
\* new item is in the list and the error slot holds the checkout failure.
C10_CheckoutFailsAfterCreate ==
  (last.action = "CreateBranch" /\ last.ok1 /\ ~last.ok2) =>
    /\ \E k \in 1..Len(branches) : branches[k].name = last.name
    /\ Len(branches) = Len(last.pre_branches) + 1
    /\ error = GitError("checkout")

C10_Witness ==
  /\ last.action = "CreateBranch" /\ last.ok1 /\ ~last.ok2
  /\ Len(last.pre_branches) >= 1
  /\ error # NoError

\* C11: no backend create request is issued for a draft that is empty,
\* ill-formed or the name of an existing item: Enter on such a draft leaves
\* the list and the index unchanged and the mode stays Input.
C11_InvalidDraftNotCreated ==
  last.key = "Enter" =>
    IF last.action = "CreateBranch"
      THEN /\ last.name # 0
           /\ last.name # BadName
           /\ \A k \in 1..Len(last.pre_branches) :
                last.pre_branches[k].name # last.name
      ELSE /\ branches = last.pre_branches
           /\ selected_index = last.pre_selected
           /\ mode = "Input"

C11_Witness ==
  /\ last.key = "Enter"
  /\ last.action # "CreateBranch"
  /\ mode = "Input"
  /\ \E k \in 1..Len(branches) : branches[k].name = draft

CheckoutSucceeded ==
  last.action = "CheckoutSelectedBranch" /\ last.name # 0 /\ last.ok1

\* C12: after a successful checkout_selected the items named like the
\* selected item are head and no other item is; nothing is added, removed,
\* reordered or re-staged.
C12_CheckoutSetsHead ==
  CheckoutSucceeded =>
    /\ last.name = last.pre_branches[last.pre_selected + 1].name
    /\ Len(branches) = Len(last.pre_branches)
    /\ \A k \in 1..Len(branches) :
         /\ branches[k].name = last.pre_branches[k].name
         /\ branches[k].staged_for_deletion =
              last.pre_branches[k].staged_for_deletion
         /\ branches[k].is_head = (branches[k].name = last.name)
    /\ selected_index = last.pre_selected

C12_Witness ==
  /\ CheckoutSucceeded
  /\ Len(branches) >= 2
  /\ \E k \in 1..Len(branches) :
       /\ last.pre_branches[k].is_head
       /\ ~branches[k].is_head
  /\ branches[selected_index + 1].is_head

Heads(seq) == {k \in 1..Len(seq) : seq[k].is_head}

\* C13: at most one item is the head in every reachable state.
C13_AtMostOneHead == Cardinality(Heads(branches)) <= 1

C13_Witness ==
  /\ last.action = "CreateBranch" /\ last.ok1 /\ ~last.ok2
  /\ Cardinality(Heads(branches)) = 1
  /\ Len(branches) >= 2

\* a backend call of the last operation returned Err
BackendFailed ==
  \/ last.action = "CheckoutSelectedBranch" /\ ~last.ok1
  \/ last.action = "CreateBranch" /\ (~last.ok1 \/ ~last.ok2)
  \/ last.action = "DeleteBranch" /\ ~last.ok1
  \/ last.action = "DeleteStagedBranches" /\ last.failed # {}

\* C14: every failed backend call of checkout_selected, create_branch,
\* delete_selected or delete_staged leaves a message in the error slot when
\* the operation ends.
C14_FailureRecorded == BackendFailed => error # NoError

\* the backend call of checkout, delete_selected or create (create step)
\* failed
FirstCallFailed ==
  /\ last.action \in {"CheckoutSelectedBranch", "DeleteBranch", "CreateBranch"}
  /\ ~last.ok1

\* C15: when the backend call of checkout_selected, delete_selected or the
\* create step of create_branch fails, items, flags and selected_index are
\* as before and the operation can be invoked again on the same item.
C15_FailureLeavesList ==
  FirstCallFailed =>
    /\ branches = last.pre_branches
    /\ selected_index = last.pre_selected
    /\ ~panicked
    /\ mode = "Selection"
    /\ last.action = "CheckoutSelectedBranch" =>
         /\ InRange(selected_index, branches)
         /\ branches[selected_index + 1].name = last.name
    /\ last.action = "DeleteBranch" =>
         /\ InRange(selected_index, branches)
         /\ branches[selected_index + 1].name = last.name
         /\ branches[selected_index + 1].staged_for_deletion
    /\ last.action = "CreateBranch" =>
         \A k \in 1..Len(branches) : branches[k].name # last.name

C15_Witness ==
  /\ FirstCallFailed
  /\ last.action = "CheckoutSelectedBranch"
  /\ Len(branches) >= 2
  /\ ~branches[selected_index + 1].is_head
  /\ \E k \in 1..Len(branches) : branches[k].is_head

\* C16: every key event clears the error slot first: an error is present
\* after a key event only when the action of that very event failed, so an
\* error left by the event before is gone.
C16_ErrorClearedByNextKey ==
  /\ error # NoError =>
       /\ last.action \in {"CheckoutSelectedBranch", "CreateBranch"}
       /\ BackendFailed
  /\ (last.pre_error # NoError /\ ~BackendFailed) => error = NoError

C16_Witness ==
  /\ last.pre_error # NoError
  /\ error = NoError
  /\ last.action = "SelectNextBranch"

\* C17: the mode starts as Selection and changes only from Selection to
\* Input on start-create, from Input to Selection on the submit of a valid
\* name and from Input to Selection on cancel; cancel issues no backend call
\* and leaves the list unchanged.
C17_ModeTransitions ==
  /\ last.action = "load" => mode = "Selection"
  /\ (last.action # "load" /\ mode # last.pre_mode) =>
       \/ /\ last.pre_mode = "Selection" /\ mode = "Input"
          /\ last.action = "InitNewBranch"
       \/ /\ last.pre_mode = "Input" /\ mode = "Selection"
          /\ last.action = "CreateBranch"
          /\ last.name \in Names
          /\ \A k \in 1..Len(last.pre_branches) :
               last.pre_branches[k].name # last.name
       \/ /\ last.pre_mode = "Input" /\ mode = "Selection"
          /\ last.action = "EndInputMod"
  /\ last.action = "EndInputMod" =>
       /\ branches = last.pre_branches
       /\ selected_index = last.pre_selected
       /\ last.requests = <<>> /\ last.name = 0
       /\ error = NoError

C17_Witness ==
  /\ last.action = "EndInputMod"
  /\ last.pre_mode = "Input"
  /\ mode = "Selection"
  /\ Len(branches) >= 1

KeyOnSelected ==
  /\ last.pre_mode = "Selection"
  /\ InRange(last.pre_selected, last.pre_branches)

PreSelected == last.pre_branches[last.pre_selected + 1]

\* the staged indexes (0-based) of the list before the last event
PreStaged ==
  {i \in 0..(Len(last.pre_branches) - 1) :
     last.pre_branches[i + 1].staged_for_deletion}

\* plain d on a staged item requests its deletion; Ctrl+d requests the
\* deletion of every staged item
DeleteKeys ==
  /\ (last.key = "d" /\ PreSelected.staged_for_deletion) =>
       /\ last.action = "DeleteBranch"
       /\ last.requests = <<last.pre_selected>>
  /\ last.key = "Ctrl+d" =>
       /\ last.action = "DeleteStagedBranches"
       /\ SeqRange(last.requests) = PreStaged

\* C18 as stated: with a selected item in Selection mode, plain d stages an
\* item that is not staged and requests the deletion of a staged one,
\* Shift+d unstages it, Ctrl+d requests the deletion of all staged items.
C18_KeysAsStated ==
  KeyOnSelected =>
    /\ DeleteKeys
    /\ (last.key = "d" /\ ~PreSelected.staged_for_deletion) =>
         /\ last.action = "StageBranchForDeletion"
         /\ branches[last.pre_selected + 1].staged_for_deletion
    /\ last.key = "Shift+d" =>
         /\ last.action = "UnstageBranchForDeletion"
         /\ ~branches[last.pre_selected + 1].staged_for_deletion

\* C18 amended: as stated for an item that is not the head; on the head
\* plain d (item not staged) and Shift+d are mapped to the same actions and
\* change nothing.
C18_KeysExceptHead ==
  KeyOnSelected =>
    /\ DeleteKeys
    /\ (last.key = "d" /\ ~PreSelected.staged_for_deletion) =>
         /\ last.action = "StageBranchForDeletion"
         /\ IF PreSelected.is_head
              THEN branches = last.pre_branches
              ELSE branches = [last.pre_branches
                     EXCEPT ![last.pre_selected + 1].staged_for_deletion = TRUE]
    /\ last.key = "Shift+d" =>
         /\ last.action = "UnstageBranchForDeletion"
         /\ IF PreSelected.is_head
              THEN branches = last.pre_branches
              ELSE branches = [last.pre_branches
                     EXCEPT ![last.pre_selected + 1].staged_for_deletion = FALSE]

C18_Witness ==
  /\ KeyOnSelected
  /\ last.key = "d"
  /\ PreSelected.staged_for_deletion
  /\ ~PreSelected.is_head
  /\ last.action = "DeleteBranch"
  /\ last.ok1
  /\ Len(branches) = Len(last.pre_branches) - 1

StagedThenUnstaged ==
  /\ last.action = "StageThenUnstage"
  /\ InRange(last.pre_selected, last.pre_branches)
  /\ ~PreSelected.is_head

\* C19 as stated: for a non-head selected item, stage_for_deletion(true)
\* followed by stage_for_deletion(false) leaves staged_for_deletion equal to
\* the value it had before the two calls.
C19_RoundTripRestores ==
  StagedThenUnstaged =>
    branches[last.pre_selected + 1].staged_for_deletion =
      PreSelected.staged_for_deletion

\* C19 amended: the two calls leave the item not staged and every other
\* item as it was, so the value is restored exactly when the item was not
\* staged before.
C19_RoundTripUnstages ==
  StagedThenUnstaged =>
    /\ branches = [last.pre_branches
         EXCEPT ![last.pre_selected + 1].staged_for_deletion = FALSE]
    /\ ~PreSelected.staged_for_deletion => branches = last.pre_branches

C19_Witness ==
  /\ StagedThenUnstaged
  /\ ~PreSelected.staged_for_deletion
  /\ branches = last.pre_branches
  /\ \E k \in 1..Len(branches) : branches[k].staged_for_deletion

\* the last action needs at least one backend call
BackendCallRequired ==
  \/ last.action = "CreateBranch"
  \/ /\ last.action \in {"CheckoutSelectedBranch", "DeleteBranch"}
     /\ InRange(last.pre_selected, last.pre_branches)
  \/ last.action = "DeleteStagedBranches" /\ PreStaged # {}

\* C20: when update has handled a checkout, create, delete or delete-staged
\* action that needs the backend, the backend calls have run to completion
\* and their effect is in the state: a checkout has made the selected item
\* the head or left an error, a create has added the item or left an error.
C20_UpdateAwaitsBackend ==
  BackendCallRequired =>
    /\ last.awaited
    /\ last.action = "CheckoutSelectedBranch" =>
         \/ error # NoError
         \/ branches[last.pre_selected + 1].is_head
    /\ last.action = "CreateBranch" =>
         \/ error # NoError
         \/ \E k \in 1..Len(branches) : branches[k].name = last.name

Ascending(seq) == \A j, k \in 1..Len(seq) : j < k => seq[j] < seq[k]

Descending(seq) == \A j, k \in 1..Len(seq) : j < k => seq[j] > seq[k]

\* C21: delete_staged requests one backend delete per item staged at the
\* start, one at a time in ascending index order, removes no item before
\* every request has returned, and then removes the successful items from
\* the highest index to the lowest.
C21_RequestsThenRemovals ==
  last.action = "DeleteStagedBranches" =>
    LET succeeded == PreStaged \ last.failed IN
    /\ Ascending(last.requests)
    /\ SeqRange(last.requests) \subseteq PreStaged
    /\ \A i \in PreStaged :
         (\E j \in SeqRange(last.requests) : i < j) =>
           i \in SeqRange(last.requests)
    /\ last.failed \subseteq SeqRange(last.requests)
    /\ last.pc = "requesting" =>
         /\ branches = last.pre_branches
         /\ last.removed = <<>>
    /\ last.pc # "requesting" => SeqRange(last.requests) = PreStaged
    /\ Descending(last.removed)
    /\ SeqRange(last.removed) \subseteq succeeded
    /\ \A i \in succeeded :
         (\E j \in SeqRange(last.removed) : i > j) =>
           i \in SeqRange(last.removed)
    /\ branches = Without(last.pre_branches, SeqRange(last.removed))
    /\ last.pc = "done" =>
         /\ SeqRange(last.removed) = succeeded
         /\ branches = remove_deleted(last.pre_branches, last.failed)

C21_Witness ==
  /\ last.action = "DeleteStagedBranches"
  /\ last.pc = "done"
  /\ last.requests = <<0, 1, 2>>
  /\ last.failed = {1}
  /\ last.removed = <<2, 0>>
  /\ Len(branches) = 1

\* C22: select_next and select_previous change nothing on an empty list;
\* on a non-empty list with selected_index >= len they take the index as
\* len-1 first and then move, so that select_next yields 0 and
\* select_previous yields len-2 (0 when len is 1).
C22_NavigationClampsFirst ==
  IsNavigation =>
    LET n == Len(last.pre_branches)
        i == last.pre_selected
    IN  /\ n = 0 => (~panicked /\ selected_index = i /\ branches = <<>>)
        /\ (n > 0 /\ i >= n) =>
             /\ ~panicked
             /\ branches = last.pre_branches
             /\ selected_index =
                  IF last.action = "SelectNextBranch" THEN 0
                  ELSE IF n = 1 THEN 0 ELSE n - 2

\* C23: whatever the action, the list (empty or not) and the results of the
\* backend calls, the controller never panics.
C23_NeverPanics == ~panicked

\* C24: in Input mode a key only becomes the update of the name input (whose
\* handling is an edit of the draft, a create submission or the end of the
\* input): no navigation, checkout, staging or delete action is produced,
\* and the items, their flags and selected_index change through a create
\* submission only.
C24_InputKeysOnlyUpdateName ==
  last.pre_mode = "Input" =>
    /\ last.key \in {"char", "Enter", "Esc"}
    /\ last.action \in {"UpdateNewBranchName", "CreateBranch", "EndInputMod"}
    /\ last.action # "CreateBranch" =>
         /\ branches = last.pre_branches
         /\ selected_index = last.pre_selected

C24_Witness ==
  /\ last.pre_mode = "Input"
  /\ mode = "Input"
  /\ last.key = "char"
  /\ draft \in Names
  /\ Len(branches) >= 2
  /\ \E k \in 1..Len(branches) : branches[k].staged_for_deletion
====
